---- MODULE Spec2Model ----
(***************************************************************************)
(* Water-tank level API (joaosgotti/web_backend_caixa-dagua).              *)
(*                                                                         *)
(* Two API variants read the same table of sensor readings:                *)
(*   src/api.py       SQLAlchemy + FastAPI path validation                 *)
(*   src/back/api.py  psycopg2, query parameter periodo_horas              *)
(* Both compute the level percentage of a reading from its distance and    *)
(* the calibration MIN_NIVEL / MAX_NIVEL, in CPython float arithmetic.     *)
(***************************************************************************)
EXTENDS Integers, Sequences, FiniteSets, TLC

(***************************************************************************)
(* IEEE-754 binary64 arithmetic, as CPython's float uses it.  A magnitude  *)
(* is a tuple of W bits, least significant first; bit i weighs             *)
(* 2^(i-1-FracBits).  Every operation returns the exact result rounded to  *)
(* Mantissa significant bits, ties to even.  The window of W bits holds    *)
(* every intermediate value of the level computation exactly for the       *)
(* distances and calibrations of this model.                               *)
(***************************************************************************)
FracBits == 64
IntBits == 16
W == FracBits + IntBits
Mantissa == 53

Abs(n) == IF n < 0 THEN -n ELSE n

Zeros(n) == [i \in 1..n |-> 0] \o <<>>

FromInt(n) ==
    [i \in 1..W |-> IF i <= FracBits THEN 0
                    ELSE (n \div 2 ^ (i - FracBits - 1)) % 2] \o <<>>

RECURSIVE AddBits(_, _, _, _)
AddBits(a, b, carry, acc) ==
    IF Len(acc) = W THEN acc
    ELSE LET s == a[Len(acc) + 1] + b[Len(acc) + 1] + carry
         IN IF s >= 2 THEN AddBits(a, b, 1, Append(acc, s - 2))
            ELSE AddBits(a, b, 0, Append(acc, s))

Add(a, b) == AddBits(a, b, 0, <<>>)

RECURSIVE SubBits(_, _, _, _)
SubBits(a, b, borrow, acc) ==
    IF Len(acc) = W THEN acc
    ELSE LET s == a[Len(acc) + 1] - b[Len(acc) + 1] - borrow
         IN IF s < 0 THEN SubBits(a, b, 1, Append(acc, s + 2))
            ELSE SubBits(a, b, 0, Append(acc, s))

\* a - b for magnitudes with b <= a
Sub(a, b) == SubBits(a, b, 0, <<>>)

Shl(a, k) == Zeros(k) \o SubSeq(a, 1, W - k)

RECURSIVE TopFrom(_, _)
TopFrom(a, i) == IF i = 0 THEN 0 ELSE IF a[i] = 1 THEN i ELSE TopFrom(a, i - 1)

\* index of the most significant set bit, 0 for zero
Top(a) == TopFrom(a, W)

RECURSIVE LessFrom(_, _, _)
LessFrom(a, b, i) ==
    IF i = 0 THEN FALSE
    ELSE IF a[i] # b[i] THEN a[i] < b[i]
    ELSE LessFrom(a, b, i - 1)

Less(a, b) == LessFrom(a, b, W)

\* round-to-nearest, ties-to-even, to Mantissa significant bits; sticky says
\* that the exact value has non-zero bits below bit 1
Round53(a, sticky) ==
    LET cut == Top(a) - Mantissa
    IN IF cut <= 0 THEN a
       ELSE LET trunc == Zeros(cut) \o SubSeq(a, cut + 1, W)
                rest == sticky \/ \E i \in 1..(cut - 1) : a[i] = 1
                up == a[cut] = 1 /\ (rest \/ a[cut + 1] = 1)
            IN IF up THEN Add(trunc, Zeros(cut) \o <<1>> \o Zeros(W - cut - 1))
               ELSE trunc

RECURSIVE DivLoop(_, _, _, _)
DivLoop(a, den, rem, acc) ==
    IF Len(acc) = W THEN [bits |-> acc, rem |-> rem]
    ELSE LET cur == 2 * rem + a[W - Len(acc)]
         IN IF cur >= den THEN DivLoop(a, den, cur - den, <<1>> \o acc)
            ELSE DivLoop(a, den, cur, <<0>> \o acc)

(***************************************************************************)
(* Float values: cls is "fin", "inf", "nan", or "raise" for an operation   *)
(* that raised ZeroDivisionError.                                          *)
(***************************************************************************)
Fin(neg, mag) == [cls |-> "fin", neg |-> neg /\ Top(mag) # 0, mag |-> mag]
Special(cls, neg) == [cls |-> cls, neg |-> neg, mag |-> Zeros(W)]

\* float(n) for an integer n
F(n) == Fin(n < 0, FromInt(Abs(n)))

\* x + y on finite values
FinAdd(x, y) ==
    IF x.neg = y.neg THEN Fin(x.neg, Round53(Add(x.mag, y.mag), FALSE))
    ELSE IF Less(x.mag, y.mag) THEN Fin(y.neg, Round53(Sub(y.mag, x.mag), FALSE))
    ELSE Fin(x.neg, Round53(Sub(x.mag, y.mag), FALSE))

\* x - y
FSub(x, y) ==
    IF x.cls = "raise" \/ y.cls = "raise" THEN Special("raise", FALSE)
    ELSE IF x.cls = "nan" \/ y.cls = "nan" THEN Special("nan", FALSE)
    ELSE IF x.cls = "inf" /\ y.cls = "inf"
         THEN IF x.neg = y.neg THEN Special("nan", FALSE) ELSE x
    ELSE IF x.cls = "inf" THEN x
    ELSE IF y.cls = "inf" THEN Special("inf", ~y.neg)
    ELSE FinAdd(x, [y EXCEPT !.neg = ~y.neg])

\* x / n for an integer n; n = 0 raises ZeroDivisionError
FDivInt(x, n) ==
    IF x.cls = "raise" \/ n = 0 THEN Special("raise", FALSE)
    ELSE IF x.cls = "nan" THEN x
    ELSE IF x.cls = "inf" THEN Special("inf", x.neg # (n < 0))
    ELSE LET q == DivLoop(x.mag, Abs(n), 0, <<>>)
         IN Fin(x.neg # (n < 0), Round53(q.bits, q.rem # 0))

\* x * 100.0
FMul100(x) ==
    IF x.cls # "fin" THEN x
    ELSE Fin(x.neg, Round53(Add(Add(Shl(x.mag, 6), Shl(x.mag, 5)), Shl(x.mag, 2)), FALSE))

\* x < y; every comparison with nan is false
FLess(x, y) ==
    IF x.cls = "nan" \/ y.cls = "nan" THEN FALSE
    ELSE IF x.cls = "inf" THEN x.neg /\ ~(y.cls = "inf" /\ y.neg)
    ELSE IF y.cls = "inf" THEN ~y.neg
    ELSE IF x.neg # y.neg THEN x.neg
    ELSE IF x.neg THEN Less(y.mag, x.mag)
    ELSE Less(x.mag, y.mag)

\* Python min(a, b) and max(a, b): the first argument unless the second is
\* strictly smaller (larger)
PyMin(a, b) == IF FLess(b, a) THEN b ELSE a
PyMax(a, b) == IF FLess(a, b) THEN b ELSE a

RECURSIVE BitsToInt(_, _)
BitsToInt(a, i) == IF i > W THEN 0 ELSE a[i] + 2 * BitsToInt(a, i + 1)

\* Python round(x) of a finite non-negative float: nearest integer, ties to
\* the even one
PyRound(x) ==
    LET n == BitsToInt(x.mag, FracBits + 1)
        low == \E i \in 1..(FracBits - 1) : x.mag[i] = 1
    IN IF x.mag[FracBits] = 1 /\ (low \/ n % 2 = 1) THEN n + 1 ELSE n

(***************************************************************************)
(* Distances.  A distance is what the driver hands to the level function:  *)
(* None, an object that is neither int nor float ("outro"), or a float:    *)
(* nan, +/-inf (k is the sign), or the finite value k / Den, up to MaxDist. *)
(***************************************************************************)
DenBits == 1
Den == 2 ^ DenBits
MaxDist == 52
Margem == 4

Dist(tipo, k) == [tipo |-> tipo, k |-> k]

Finitas == {Dist("float", k) : k \in (0 - Margem)..(MaxDist * Den)}

Distancias ==
    Finitas \cup {Dist("None", 0), Dist("outro", 0), Dist("nan", 0),
                  Dist("inf", 1), Dist("inf", -1)}

\* <<MIN_NIVEL, MAX_NIVEL>> values the environment may hold
Calibracoes == {<<0, 100>>, <<10, 50>>, <<5, 5>>, <<50, 10>>}

\* isinstance(distancia_original, (int, float))
isinstance_number(d) == d.tipo \in {"float", "nan", "inf"}

\* the float a numeric distance is
ToFloat(d) ==
    IF d.tipo = "nan" THEN Special("nan", FALSE)
    ELSE IF d.tipo = "inf" THEN Special("inf", d.k < 0)
    ELSE FDivInt(F(d.k), Den)

\* results of the level function that are not a percentage
None == -1
ZeroDivisionError == -2
TypeError == -3

\* _calcular_nivel_percentual without the clamp to [0.0, 100.0]
_calcular_sem_clamp(distancia_original, min_val, max_val) ==
    IF ~isinstance_number(distancia_original) THEN None
    ELSE LET range_nivel == max_val - min_val
         IN IF range_nivel = 0 THEN 0
            ELSE LET nivel_normalizado ==
                         FSub(F(1), FDivInt(FSub(ToFloat(distancia_original), F(min_val)),
                                            range_nivel))
                     nivel_percentual == FMul100(nivel_normalizado)
                 IN IF nivel_percentual.cls # "fin" THEN 0
                    ELSE IF nivel_percentual.neg THEN 0 - PyRound(nivel_percentual)
                    ELSE PyRound(nivel_percentual)

\* _calcular_nivel_percentual guarding only against None
_calcular_so_none(distancia_original, min_val, max_val) ==
    IF distancia_original.tipo = "None" THEN None
    ELSE IF ~isinstance_number(distancia_original) THEN TypeError
    ELSE LET range_nivel == max_val - min_val
         IN IF range_nivel = 0 THEN 0
            ELSE LET nivel_normalizado ==
                         FSub(F(1), FDivInt(FSub(ToFloat(distancia_original), F(min_val)),
                                            range_nivel))
                     nivel_percentual ==
                         PyMax(F(0), PyMin(F(100), FMul100(nivel_normalizado)))
                 IN PyRound(nivel_percentual)

\* calcular_nivel_percentual without the inversion "1 - ..."
calcular_sem_inversao(distancia_original, min_val, max_val) ==
    IF ~isinstance_number(distancia_original) THEN None
    ELSE LET range_nivel == max_val - min_val
         IN IF range_nivel = 0 THEN 0
            ELSE LET nivel_normalizado ==
                         FDivInt(FSub(ToFloat(distancia_original), F(min_val)), range_nivel)
                     nivel_percentual ==
                         PyMax(F(0), PyMin(F(100), FMul100(nivel_normalizado)))
                 IN PyRound(nivel_percentual)

\* calcular_nivel_percentual without the test range_nivel == 0
calcular_sem_guarda(distancia_original, min_val, max_val) ==
    IF ~isinstance_number(distancia_original) THEN None
    ELSE LET range_nivel == max_val - min_val
             quociente == FDivInt(FSub(ToFloat(distancia_original), F(min_val)),
                                  range_nivel)
             nivel_percentual ==
                 PyMax(F(0), PyMin(F(100), FMul100(FSub(F(1), quociente))))
         IN IF quociente.cls = "raise" THEN ZeroDivisionError
            ELSE PyRound(nivel_percentual)

_calcular_nivel_percentual(distancia_original, min_val, max_val) ==
    IF ~isinstance_number(distancia_original) THEN None
    ELSE LET range_nivel == max_val - min_val
         IN IF range_nivel = 0 THEN 0
            ELSE LET nivel_normalizado ==
                         FSub(F(1), FDivInt(FSub(ToFloat(distancia_original), F(min_val)),
                                            range_nivel))
                     nivel_percentual ==
                         PyMax(F(0), PyMin(F(100), FMul100(nivel_normalizado)))
                 IN PyRound(nivel_percentual)

calcular_nivel_percentual(distancia_original, min_val, max_val) ==
    IF ~isinstance_number(distancia_original) THEN None
    ELSE LET range_nivel == max_val - min_val
         IN IF range_nivel = 0 THEN 0
            ELSE LET nivel_normalizado ==
                         FSub(F(1), FDivInt(FSub(ToFloat(distancia_original), F(min_val)),
                                            range_nivel))
                     nivel_percentual ==
                         PyMax(F(0), PyMin(F(100), FMul100(nivel_normalizado)))
                 IN PyRound(nivel_percentual)

\* the two functions tabulated over the inputs of the model, computed once
NivelApi ==
    [d \in Distancias, c \in Calibracoes |->
        _calcular_nivel_percentual(d, c[1], c[2])] @@ <<>>

NivelBack ==
    [d \in Distancias, c \in Calibracoes |->
        calcular_nivel_percentual(d, c[1], c[2])] @@ <<>>

(***************************************************************************)
(* The store and the two API variants.                                     *)
(***************************************************************************)
VARIABLES MIN_NIVEL, MAX_NIVEL, medidas, leituras, agora, pedido, resposta

\* Concurrent requests and their store sessions: where each request is, the
\* session its local db / conn holds (0 for None), how it left the handler,
\* its close() calls; the open sessions, who acquired each session, which
\* request ran a query on which session, and the most sessions open at once.
VARIABLES sessao_pc, db, saida, closes, abertas, donos, usos, pico

vars_sessao == <<sessao_pc, db, saida, closes, abertas, donos, usos, pico>>

\* The runner of src/back/run_backend.py: its position, the list processes,
\* the state of each child, the position of signal_handler in its loop, the
\* signals received, what called signal_handler or ended the script, the
\* steps signal_handler has taken in its current call, and the errors raised
\* by terminate() so far.
VARIABLES runner_pc, processes, filho, sh_j, sinais, gatilho, sh_log, erros

vars_runner == <<runner_pc, processes, filho, sh_j, sinais, gatilho, sh_log, erros>>

vars == <<MIN_NIVEL, MAX_NIVEL, medidas, leituras, agora, pedido, resposta, vars_sessao,
          vars_runner>>

vars_servico == <<MIN_NIVEL, MAX_NIVEL, medidas, leituras, agora, pedido, resposta>>

\* requests in flight at once
MaxPedidos == 2
Pedidos == 1..MaxPedidos

\* the children in the order the runner starts them
Ordem == <<"listener", "api", "frontend">>
Filhos == {Ordem[i] : i \in DOMAIN Ordem}

\* signals sent to the runner, and errors raised by terminate(), in a run
MaxSinais == 2
MaxErros == 1

InitRunner ==
    /\ runner_pc = "verificar"
    /\ processes = <<>>
    /\ filho = [c \in Filhos |-> "nao_iniciado"]
    /\ sh_j = 0
    /\ sinais = 0
    /\ gatilho = ""
    /\ sh_log = <<>>
    /\ erros = 0

InitSessao ==
    /\ sessao_pc = [r \in Pedidos |-> "inicio"]
    /\ db = [r \in Pedidos |-> 0]
    /\ saida = [r \in Pedidos |-> ""]
    /\ closes = [r \in Pedidos |-> 0]
    /\ abertas = {}
    /\ donos = {}
    /\ usos = {}
    /\ pico = 0

\* rows the table may hold in a run
MaxLeituras == 3

\* timedelta(days=1) in hours, the unit of time of the model
DiaHoras == 24

\* instants (hours, UTC) of the clock and of the readings' created_on
Instantes == {0, 1, 2, DiaHoras + 1}

\* distances the sensor reports: 20.0 and 27.0
DistanciasSensor == {Dist("float", 20 * Den), Dist("float", 27 * Den)}

\* path and query parameters a client may send
Unidades == {"h", "d", "x"}
Valores == {-1, 0, 1, DiaHoras}

\* what the store does to a request: nothing wrong, the connection cannot be
\* made, or the query raises
Falhas == {"nenhuma", "conexao", "consulta"}

NenhumPedido == [api |-> "nenhuma", rota |-> "nenhuma", unit |-> "", value |-> 0,
                 falha |-> "nenhuma"]

NenhumaResposta == [status |-> 0, pagina |-> "", detalhe |-> "", corpo |-> <<>>,
                    conexoes |-> 0, consultas |-> 0]

\* a handler whose except clause swallows the error: an empty success
Resposta_engole_erro(status, pagina, detalhe, corpo, conexoes, consultas) ==
    [status |-> IF status >= 500 THEN 200 ELSE status, pagina |-> pagina,
     detalhe |-> IF status >= 500 THEN "" ELSE detalhe, corpo |-> corpo,
     conexoes |-> conexoes, consultas |-> consultas]

\* str(e) of the exception the store raises, which the handlers print
str_e(falha) ==
    IF falha = "conexao" THEN "OperationalError: could not connect to server"
    ELSE IF falha = "consulta" THEN "ProgrammingError: relation leituras does not exist"
    ELSE ""

Resposta(status, pagina, detalhe, corpo, conexoes, consultas) ==
    [status |-> status, pagina |-> pagina, detalhe |-> detalhe, corpo |-> corpo,
     conexoes |-> conexoes, consultas |-> consultas]

\* calibrations the services are started with
CalibracoesServico == {<<10, 50>>, <<5, 5>>}

Init ==
    /\ \E c \in CalibracoesServico : MIN_NIVEL = c[1] /\ MAX_NIVEL = c[2]
    /\ medidas = <<>>
    /\ leituras = {}
    /\ agora = 0
    /\ pedido = NenhumPedido
    /\ resposta = NenhumaResposta
    /\ InitSessao
    /\ InitRunner

(***************************************************************************)
(* The environment: the MQTT listener inserts readings, time passes.  A    *)
(* handler runs from request to response in one step; pedido and resposta  *)
(* hold the request just handled and its response until it is sent.        *)
(***************************************************************************)
Ingerir(d, t) ==
    /\ pedido = NenhumPedido
    /\ Cardinality(leituras) < MaxLeituras
    /\ t <= agora
    /\ leituras' = leituras \cup
           {[id |-> Cardinality(leituras) + 1, distancia |-> d, created_on |-> t,
             tzinfo |-> "UTC"]}
    /\ UNCHANGED <<vars_sessao, vars_runner, MIN_NIVEL, MAX_NIVEL, medidas, agora, pedido, resposta>>

\* the same insertion into a table whose created_on column has no time zone:
\* the driver hands the instant back with tzinfo None
IngerirNaive(d, t) ==
    /\ pedido = NenhumPedido
    /\ Cardinality(leituras) < MaxLeituras
    /\ t <= agora
    /\ leituras' = leituras \cup
           {[id |-> Cardinality(leituras) + 1, distancia |-> d, created_on |-> t,
             tzinfo |-> "None"]}
    /\ UNCHANGED <<vars_sessao, vars_runner, MIN_NIVEL, MAX_NIVEL, medidas, agora, pedido, resposta>>

Tick(t) ==
    /\ pedido = NenhumPedido
    /\ t > agora
    /\ agora' = t
    /\ UNCHANGED <<vars_sessao, vars_runner, MIN_NIVEL, MAX_NIVEL, medidas, leituras, pedido, resposta>>

\* the response of the request just handled leaves for the client
Responder ==
    /\ pedido # NenhumPedido
    /\ pedido' = NenhumPedido
    /\ resposta' = NenhumaResposta
    /\ UNCHANGED <<vars_sessao, vars_runner, MIN_NIVEL, MAX_NIVEL, medidas, leituras, agora>>

(***************************************************************************)
(* SQL: the rows of a set in the order ORDER BY created_on gives them; rows *)
(* with equal created_on come in any order.                                *)
(***************************************************************************)
Ordens(S) ==
    {f \in [1..Cardinality(S) -> S] : \A i, j \in 1..Cardinality(S) : i # j => f[i] # f[j]}

order_by_asc(S) ==
    {f \in Ordens(S) : \A i, j \in 1..Cardinality(S) :
                           i < j => f[i].created_on <= f[j].created_on}

order_by_desc(S) ==
    {f \in Ordens(S) : \A i, j \in 1..Cardinality(S) :
                           i < j => f[i].created_on >= f[j].created_on}

(***************************************************************************)
(* src/api.py                                                              *)
(***************************************************************************)
\* datetime.isoformat(): the instant followed by the offset of its tzinfo,
\* and by nothing when tzinfo is None
utcoffset(tzinfo) ==
    IF tzinfo = "UTC" THEN "+00:00"
    ELSE IF tzinfo = "America/Recife" THEN "-03:00"
    ELSE ""

isoformat(t, tzinfo) == [inst |-> t, offset |-> utcoffset(tzinfo)]

\* the pydantic model keeps the fields it declares: id, distancia, created_on
LeituraResponse(id, distancia, nivel, created_on) ==
    [id |-> id, distancia |-> distancia, created_on |-> created_on]

_processar_leitura(leitura_obj) ==
    LET nivel_percentual == NivelApi[leitura_obj.distancia, <<MIN_NIVEL, MAX_NIVEL>>]
        created_on_str == isoformat(leitura_obj.created_on, leitura_obj.tzinfo)
    IN LeituraResponse(leitura_obj.id, leitura_obj.distancia, nivel_percentual,
                       created_on_str)

\* query without ORDER BY: the rows in any order
api_query_sem_ordem(tabela, limite_tempo_utc) ==
    Ordens({l \in tabela : l.created_on >= limite_tempo_utc})

\* db.query(Leitura).filter(created_on >= limite).order_by(asc(created_on)).all()
api_query_periodo(tabela, limite_tempo_utc) ==
    order_by_asc({l \in tabela : l.created_on >= limite_tempo_utc})

\* db.query(Leitura).order_by(desc(created_on)).first(): <<>> when there is no row
api_query_ultima(tabela) ==
    IF tabela = {} THEN {<<>>}
    ELSE {<<f[1]>> : f \in order_by_desc(tabela)}

api_get_leituras_por_periodo(unit, value, falha) ==
    /\ pedido = NenhumPedido
    /\ pedido' = [api |-> "api", rota |-> "periodo", unit |-> unit, value |-> value,
                  falha |-> falha]
    /\ IF unit \notin {"h", "d"} \/ value < 1
       THEN resposta' = Resposta(422, "json", "validation error", <<>>, 0, 0)
       ELSE LET delta == IF unit = "h" THEN value ELSE value * DiaHoras
                limite_tempo_utc == agora - delta
            IN IF falha # "nenhuma"
               THEN resposta' = Resposta(500, "json",
                                         "Erro interno do servidor ao buscar historico",
                                         <<>>, 1, IF falha = "consulta" THEN 1 ELSE 0)
               ELSE \E leituras_objs \in api_query_periodo(leituras, limite_tempo_utc) :
                        resposta' = Resposta(200, "json", "",
                                             [i \in 1..Len(leituras_objs) |->
                                                 _processar_leitura(leituras_objs[i])],
                                             1, 1)
    /\ UNCHANGED <<vars_sessao, vars_runner, MIN_NIVEL, MAX_NIVEL, medidas, leituras, agora>>

api_get_ultima_leitura_html(falha) ==
    /\ pedido = NenhumPedido
    /\ pedido' = [api |-> "api", rota |-> "ultima", unit |-> "", value |-> 0,
                  falha |-> falha]
    /\ IF falha # "nenhuma"
       THEN resposta' = Resposta(500, "error.html", "Ocorreu um erro interno no servidor.",
                                 <<>>, 1, IF falha = "consulta" THEN 1 ELSE 0)
       ELSE \E ultima_leitura_obj \in api_query_ultima(leituras) :
                IF ultima_leitura_obj = <<>>
                THEN resposta' = Resposta(404, "error.html",
                                          "Nenhuma leitura encontrada no banco de dados.",
                                          <<>>, 1, 1)
                ELSE resposta' = Resposta(200, "ultima_leitura.html", "",
                                          <<_processar_leitura(ultima_leitura_obj[1])>>,
                                          1, 1)
    /\ UNCHANGED <<vars_sessao, vars_runner, MIN_NIVEL, MAX_NIVEL, medidas, leituras, agora>>

(***************************************************************************)
(* src/back/api.py                                                         *)
(***************************************************************************)
\* original_datetime.replace(tzinfo=timezone.utc) when tzinfo is None, then
\* astimezone(America/Recife): the same instant under the local tzinfo
back_tzinfo(tzinfo) ==
    LET original == IF tzinfo = "None" THEN "UTC" ELSE tzinfo
    IN IF original = "None" THEN "None" ELSE "America/Recife"

\* the row with created_on in America/Recife and the level added
back_processar(leitura) ==
    [id |-> leitura.id, distancia |-> leitura.distancia,
     created_on |-> isoformat(leitura.created_on, back_tzinfo(leitura.tzinfo)),
     nivel |-> NivelBack[leitura.distancia, <<MIN_NIVEL, MAX_NIVEL>>]]

\* the same SELECT with created_on > %s
back_select_depois(tabela, limite_tempo_utc) ==
    order_by_asc({l \in tabela : l.created_on > limite_tempo_utc})

\* SELECT ... WHERE created_on >= %s ORDER BY created_on ASC; fetchall()
back_select_periodo(tabela, limite_tempo_utc) ==
    order_by_asc({l \in tabela : l.created_on >= limite_tempo_utc})

\* the same SELECT with ORDER BY created_on ASC
back_select_primeira(tabela) ==
    IF tabela = {} THEN {<<>>}
    ELSE {<<f[1]>> : f \in order_by_asc(tabela)}

\* SELECT ... ORDER BY created_on DESC LIMIT 1; fetchone(): <<>> for no row
back_select_ultima(tabela) ==
    IF tabela = {} THEN {<<>>}
    ELSE {<<f[1]>> : f \in order_by_desc(tabela)}

back_get_ultima_leitura(falha) ==
    /\ pedido = NenhumPedido
    /\ pedido' = [api |-> "back", rota |-> "ultima", unit |-> "", value |-> 0,
                  falha |-> falha]
    /\ IF falha = "conexao"
       THEN resposta' = Resposta(503, "json",
                                 "Servico indisponivel: Falha na conexao com o banco de dados",
                                 <<>>, 1, 0)
       ELSE IF falha = "consulta"
       THEN resposta' = Resposta(500, "json",
                                 "Erro interno do servidor ao buscar ultima leitura",
                                 <<>>, 1, 1)
       ELSE \E result \in back_select_ultima(leituras) :
                IF result # <<>>
                THEN resposta' = Resposta(200, "json", "", <<back_processar(result[1])>>,
                                          1, 1)
                ELSE resposta' = Resposta(200, "json", "", <<>>, 1, 1)
    /\ UNCHANGED <<vars_sessao, vars_runner, MIN_NIVEL, MAX_NIVEL, medidas, leituras, agora>>

back_get_leituras_por_periodo(periodo_horas, falha) ==
    /\ pedido = NenhumPedido
    /\ pedido' = [api |-> "back", rota |-> "periodo", unit |-> "h",
                  value |-> periodo_horas, falha |-> falha]
    /\ IF falha = "conexao"
       THEN resposta' = Resposta(503, "json",
                                 "Servico indisponivel: Falha na conexao com o banco de dados",
                                 <<>>, 1, 0)
       ELSE IF falha = "consulta"
       THEN resposta' = Resposta(500, "json",
                                 "Erro interno do servidor ao buscar historico",
                                 <<>>, 1, 1)
       ELSE LET limite_tempo_utc == agora - periodo_horas
            IN \E resultados \in back_select_periodo(leituras, limite_tempo_utc) :
                   resposta' = Resposta(200, "json", "",
                                        [i \in 1..Len(resultados) |->
                                            back_processar(resultados[i])],
                                        1, 1)
    /\ UNCHANGED <<vars_sessao, vars_runner, MIN_NIVEL, MAX_NIVEL, medidas, leituras, agora>>

Next ==
    \/ \E d \in DistanciasSensor, t \in Instantes : Ingerir(d, t)
    \/ \E t \in Instantes : Tick(t)
    \/ Responder
    \/ \E u \in Unidades, v \in Valores, f \in Falhas : api_get_leituras_por_periodo(u, v, f)
    \/ \E f \in Falhas : api_get_ultima_leitura_html(f)
    \/ \E f \in Falhas : back_get_ultima_leitura(f)
    \/ \E v \in Valores, f \in Falhas : back_get_leituras_por_periodo(v, f)

Spec == Init /\ [][Next]_vars

(***************************************************************************)
(* SpecNivel: the level function on its own.  The calibration is drawn     *)
(* from Calibracoes, and each step calls both copies of the function on a  *)
(* distance; medidas records the calls, two per run at most.               *)
(***************************************************************************)
InitNivel ==
    /\ \E c \in Calibracoes : MIN_NIVEL = c[1] /\ MAX_NIVEL = c[2]
    /\ medidas = <<>>
    /\ leituras = {}
    /\ agora = 0
    /\ pedido = NenhumPedido
    /\ resposta = NenhumaResposta
    /\ InitSessao
    /\ InitRunner

Medir(d) ==
    /\ Len(medidas) < 2
    /\ medidas' = Append(medidas,
                         [dist |-> d,
                          api |-> NivelApi[d, <<MIN_NIVEL, MAX_NIVEL>>],
                          back |-> NivelBack[d, <<MIN_NIVEL, MAX_NIVEL>>]])
    /\ UNCHANGED <<vars_sessao, vars_runner, MIN_NIVEL, MAX_NIVEL, leituras, agora, pedido, resposta>>

NextNivel == \E d \in Distancias : Medir(d)

SpecNivel == InitNivel /\ [][NextNivel]_vars

(***************************************************************************)
(* SpecFuso: the two API variants over a table whose created_on column     *)
(* holds timestamps without time zone; the store serves every request.     *)
(***************************************************************************)
NextFuso ==
    \/ \E d \in DistanciasSensor, t \in Instantes : IngerirNaive(d, t)
    \/ \E t \in Instantes : Tick(t)
    \/ Responder
    \/ \E v \in {1, DiaHoras} : api_get_leituras_por_periodo("h", v, "nenhuma")
    \/ api_get_ultima_leitura_html("nenhuma")
    \/ back_get_ultima_leitura("nenhuma")
    \/ \E v \in {1, DiaHoras} : back_get_leituras_por_periodo(v, "nenhuma")

SpecFuso == Init /\ [][NextFuso]_vars

(***************************************************************************)
(* SpecSessao: concurrent requests, one step per statement that touches    *)
(* the session.  FastAPI runs each request in its own worker thread; db    *)
(* and conn are locals of the request.                                     *)
(***************************************************************************)
\* how a handler is left: a result, the not-found answer, an HTTPException
\* raised inside it, an exception of the store handled by it
Saidas == {"sucesso", "nao_encontrado", "http_erro", "excecao"}

\* SessionLocal() / psycopg2.connect(): a session nobody holds yet
nova_sessao == Cardinality(donos) + 1

\* a close() that leaves the session open
close_nada(sessoes, s) == sessoes

\* db.close() / conn.close()
close(sessoes, s) == sessoes \ {s}

Maior(a, b) == IF a >= b THEN a ELSE b

\* src/database_api.py get_db_session up to its yield: db = SessionLocal()
get_db_session(r) ==
    /\ sessao_pc[r] = "inicio"
    /\ db' = [db EXCEPT ![r] = nova_sessao]
    /\ abertas' = abertas \cup {nova_sessao}
    /\ donos' = donos \cup {<<nova_sessao, r>>}
    /\ pico' = Maior(pico, Cardinality(abertas'))
    /\ sessao_pc' = [sessao_pc EXCEPT ![r] = "api_handler"]
    /\ UNCHANGED <<saida, closes, usos, vars_servico, vars_runner>>

\* the body of a src/api.py handler: db.query(...) on the session it was
\* given, then one of its exits
api_handler(r, como) ==
    /\ sessao_pc[r] = "api_handler"
    /\ usos' = usos \cup {<<r, db[r]>>}
    /\ saida' = [saida EXCEPT ![r] = como]
    /\ sessao_pc' = [sessao_pc EXCEPT ![r] = "api_finally"]
    /\ UNCHANGED <<db, closes, abertas, donos, pico, vars_servico, vars_runner>>

\* get_db_session after the yield: finally db.close()
get_db_session_finally(r) ==
    /\ sessao_pc[r] = "api_finally"
    /\ abertas' = close(abertas, db[r])
    /\ closes' = [closes EXCEPT ![r] = @ + 1]
    /\ sessao_pc' = [sessao_pc EXCEPT ![r] = "fim"]
    /\ UNCHANGED <<db, saida, donos, usos, pico, vars_servico, vars_runner>>

\* src/back/api.py: conn = connect_db(); if not conn: raise HTTPException(503)
connect_db(r, ok) ==
    /\ sessao_pc[r] = "inicio"
    /\ IF ok
       THEN /\ db' = [db EXCEPT ![r] = nova_sessao]
            /\ abertas' = abertas \cup {nova_sessao}
            /\ donos' = donos \cup {<<nova_sessao, r>>}
            /\ pico' = Maior(pico, Cardinality(abertas'))
            /\ sessao_pc' = [sessao_pc EXCEPT ![r] = "back_handler"]
            /\ UNCHANGED saida
       ELSE /\ saida' = [saida EXCEPT ![r] = "http_erro"]
            /\ sessao_pc' = [sessao_pc EXCEPT ![r] = "back_finally"]
            /\ UNCHANGED <<db, abertas, donos, pico>>
    /\ UNCHANGED <<closes, usos, vars_servico, vars_runner>>

\* the body of a src/back/api.py handler: cur.execute(...) on conn, then one
\* of its exits
back_handler(r, como) ==
    /\ sessao_pc[r] = "back_handler"
    /\ usos' = usos \cup {<<r, db[r]>>}
    /\ saida' = [saida EXCEPT ![r] = como]
    /\ sessao_pc' = [sessao_pc EXCEPT ![r] = "back_finally"]
    /\ UNCHANGED <<db, closes, abertas, donos, pico, vars_servico, vars_runner>>

\* finally: if conn: conn.close()
back_finally(r) ==
    /\ sessao_pc[r] = "back_finally"
    /\ IF db[r] # 0
       THEN /\ abertas' = close(abertas, db[r])
            /\ closes' = [closes EXCEPT ![r] = @ + 1]
       ELSE UNCHANGED <<abertas, closes>>
    /\ sessao_pc' = [sessao_pc EXCEPT ![r] = "fim"]
    /\ UNCHANGED <<db, saida, donos, usos, pico, vars_servico, vars_runner>>

NextSessao ==
    \/ \E r \in Pedidos : get_db_session(r)
    \/ \E r \in Pedidos, como \in Saidas : api_handler(r, como)
    \/ \E r \in Pedidos : get_db_session_finally(r)
    \/ \E r \in Pedidos, ok \in BOOLEAN : connect_db(r, ok)
    \/ \E r \in Pedidos, como \in Saidas : back_handler(r, como)
    \/ \E r \in Pedidos : back_finally(r)

SpecSessao == Init /\ [][NextSessao]_vars

(***************************************************************************)
(* SpecRunner: src/back/run_backend.py.  The main script runs statement by *)
(* statement; SIGINT or SIGTERM may arrive between any two statements and  *)
(* runs signal_handler on top of the script, which ends in sys.exit(0).    *)
(* A child may exit by itself at any time.                                 *)
(***************************************************************************)
\* a loop over processes in the order of the list
reversed_nao(seq) == seq

\* reversed(processes)
reversed(seq) == [i \in 1..Len(seq) |-> seq[Len(seq) + 1 - i]]

\* a monitoring loop that never sees an exit
poll_is_not_None_nunca(estado) == FALSE

\* process_obj.poll() is not None, in the monitoring loop
poll_is_not_None(estado) == estado = "saiu"

\* process_obj.poll() is None, in signal_handler
poll_is_None(estado) == estado = "rodando"

\* what subprocess.Popen does: the child runs, the executable is not found,
\* or another error is raised
Resultados == {"ok", "FileNotFoundError", "Exception"}

\* the child signal_handler is at
alvo == reversed(processes)[sh_j]

Registro(c, ev) == [filho |-> c, ev |-> ev]

\* a call of signal_handler: the loop starts at the head of reversed(processes)
signal_handler(motivo) ==
    /\ runner_pc' = "signal_handler"
    /\ sh_j' = 1
    /\ sh_log' = <<>>
    /\ gatilho' = motivo

\* the os.path.isfile / isdir tests: raise FileNotFoundError, which is printed
verificar(ok) ==
    /\ runner_pc = "verificar"
    /\ IF ok
       THEN runner_pc' = "popen" /\ UNCHANGED gatilho
       ELSE runner_pc' = "exited" /\ gatilho' = "FileNotFoundError"
    /\ UNCHANGED <<processes, filho, sh_j, sinais, sh_log, erros, vars_servico, vars_sessao>>

\* subprocess.Popen of the next child; the listener and the API are run by
\* sys.executable, the frontend by the package manager found on the PATH
Popen(resultado) ==
    /\ runner_pc = "popen"
    /\ LET c == Ordem[Len(processes) + 1]
       IN IF resultado = "ok"
          THEN /\ filho' = [filho EXCEPT ![c] = "rodando"]
               /\ runner_pc' = "append"
               /\ UNCHANGED <<sh_j, sh_log, gatilho>>
          ELSE IF resultado = "FileNotFoundError"
          THEN /\ c = "frontend"
               /\ runner_pc' = "exited"
               /\ gatilho' = "FileNotFoundError"
               /\ UNCHANGED <<filho, sh_j, sh_log>>
          ELSE /\ signal_handler("except")
               /\ UNCHANGED filho
    /\ UNCHANGED <<processes, sinais, erros, vars_servico, vars_sessao>>

\* processes.append({...}) and the sleep after it
append ==
    /\ runner_pc = "append"
    /\ processes' = Append(processes, Ordem[Len(processes) + 1])
    /\ runner_pc' = IF Len(processes) + 1 = Len(Ordem) THEN "monitor" ELSE "popen"
    /\ UNCHANGED <<filho, sh_j, sinais, gatilho, sh_log, erros, vars_servico, vars_sessao>>

\* one pass of the monitoring loop that finds a child that has exited
monitorar ==
    /\ runner_pc = "monitor"
    /\ \E i \in DOMAIN processes : poll_is_not_None(filho[processes[i]])
    /\ signal_handler("monitor")
    /\ UNCHANGED <<processes, filho, sinais, erros, vars_servico, vars_sessao>>

\* SIGINT or SIGTERM is delivered to the runner
Sinal ==
    /\ runner_pc # "exited"
    /\ sinais < MaxSinais
    /\ sinais' = sinais + 1
    /\ signal_handler("sinal")
    /\ UNCHANGED <<processes, filho, erros, vars_servico, vars_sessao>>

\* elif pid: the child had already stopped
sh_ja_parado ==
    /\ runner_pc = "signal_handler"
    /\ sh_j <= Len(processes)
    /\ ~poll_is_None(filho[alvo])
    /\ sh_log' = Append(sh_log, Registro(alvo, "ja_parado"))
    /\ sh_j' = sh_j + 1
    /\ UNCHANGED <<runner_pc, processes, filho, sinais, gatilho, erros, vars_servico,
                   vars_sessao>>

\* process_obj.terminate(); an exception it raises is printed and the loop
\* goes on
sh_terminate(erro) ==
    /\ runner_pc = "signal_handler"
    /\ sh_j <= Len(processes)
    /\ poll_is_None(filho[alvo])
    /\ IF erro
       THEN /\ erros < MaxErros
            /\ erros' = erros + 1
            /\ sh_log' = Append(sh_log, Registro(alvo, "erro"))
            /\ sh_j' = sh_j + 1
            /\ UNCHANGED runner_pc
       ELSE /\ sh_log' = Append(sh_log, Registro(alvo, "terminate"))
            /\ runner_pc' = "wait"
            /\ UNCHANGED <<sh_j, erros>>
    /\ UNCHANGED <<processes, filho, sinais, gatilho, vars_servico, vars_sessao>>

\* process_obj.wait(timeout=3): the child exits in time, or TimeoutExpired
sh_wait(saiu) ==
    /\ runner_pc = "wait"
    /\ IF saiu \/ filho[alvo] = "saiu"
       THEN /\ filho' = [filho EXCEPT ![alvo] = "saiu"]
            /\ sh_log' = Append(sh_log, Registro(alvo, "parado"))
            /\ sh_j' = sh_j + 1
            /\ runner_pc' = "signal_handler"
       ELSE /\ runner_pc' = "kill"
            /\ UNCHANGED <<filho, sh_log, sh_j>>
    /\ UNCHANGED <<processes, sinais, gatilho, erros, vars_servico, vars_sessao>>

\* process_obj.kill()
sh_kill ==
    /\ runner_pc = "kill"
    /\ filho' = [filho EXCEPT ![alvo] = "saiu"]
    /\ sh_log' = Append(sh_log, Registro(alvo, "kill"))
    /\ sh_j' = sh_j + 1
    /\ runner_pc' = "signal_handler"
    /\ UNCHANGED <<processes, sinais, gatilho, erros, vars_servico, vars_sessao>>

\* the loop is over: sys.exit(0)
sh_exit ==
    /\ runner_pc = "signal_handler"
    /\ sh_j > Len(processes)
    /\ runner_pc' = "exited"
    /\ UNCHANGED <<processes, filho, sh_j, sinais, gatilho, sh_log, erros, vars_servico,
                   vars_sessao>>

\* a child exits by itself
Sair(c) ==
    /\ filho[c] = "rodando"
    /\ filho' = [filho EXCEPT ![c] = "saiu"]
    /\ UNCHANGED <<runner_pc, processes, sh_j, sinais, gatilho, sh_log, erros, vars_servico,
                   vars_sessao>>

\* the steps of the runner itself
RunnerPasso ==
    \/ \E ok \in BOOLEAN : verificar(ok)
    \/ \E resultado \in Resultados : Popen(resultado)
    \/ append
    \/ monitorar
    \/ sh_ja_parado
    \/ \E erro \in BOOLEAN : sh_terminate(erro)
    \/ \E saiu \in BOOLEAN : sh_wait(saiu)
    \/ sh_kill
    \/ sh_exit

NextRunner ==
    \/ RunnerPasso
    \/ Sinal
    \/ \E c \in Filhos : Sair(c)

SpecRunner == Init /\ [][NextRunner]_vars

\* the runner is scheduled: a step it can take is taken
SpecRunnerFair == SpecRunner /\ WF_vars(RunnerPasso)

(***************************************************************************)
(* Properties of the level function, checked under SpecNivel.              *)
(***************************************************************************)
EhNumero(d) == d.tipo \in {"float", "nan", "inf"}
EhFinito(d) == d.tipo = "float"

\* d <= n and d >= n for a numeric distance d and an integer n
DistLe(d, n) == IF d.tipo = "float" THEN d.k <= n * Den ELSE d.tipo = "inf" /\ d.k < 0
DistGe(d, n) == IF d.tipo = "float" THEN d.k >= n * Den ELSE d.tipo = "inf" /\ d.k > 0

\* d1 <= d2 for numeric distances
DistLeq(d1, d2) ==
    IF d1.tipo = "nan" \/ d2.tipo = "nan" THEN FALSE
    ELSE IF d1.tipo = "inf" THEN d1.k < 0 \/ (d2.tipo = "inf" /\ d2.k > 0)
    ELSE IF d2.tipo = "inf" THEN d2.k > 0
    ELSE d1.k <= d2.k

\* The exact percentage 100 * (1 - (d - min) / (max - min)) of a finite
\* distance, for min < max, as the fraction PctNum / PctDen clamped to [0, 100]
PctDen(min_val, max_val) == (max_val - min_val) * Den
PctNum(d, min_val, max_val) ==
    LET n == 100 * (max_val * Den - d.k)
        top == 100 * PctDen(min_val, max_val)
    IN IF n < 0 THEN 0 ELSE IF n > top THEN top ELSE n

\* round-half-to-even of num / den, in integers
HalfEven(num, den) ==
    LET q == num \div den
        r == num % den
    IN IF 2 * r < den THEN q
       ELSE IF 2 * r > den THEN q + 1
       ELSE IF q % 2 = 0 THEN q ELSE q + 1

Referencia(d, min_val, max_val) ==
    HalfEven(PctNum(d, min_val, max_val), PctDen(min_val, max_val))

\* C1: for min < max and every numeric distance both copies return an integer
\* in 0..100, exactly 100 when distance <= min and exactly 0 when distance >= max.
NivelNoIntervalo ==
    \A i \in DOMAIN medidas :
        LET m == medidas[i]
        IN (MIN_NIVEL < MAX_NIVEL /\ EhNumero(m.dist)) =>
               \A r \in {m.api, m.back} :
                   /\ r \in 0..100
                   /\ DistLe(m.dist, MIN_NIVEL) => r = 100
                   /\ DistGe(m.dist, MAX_NIVEL) => r = 0

\* C1 witness: a distance below min measured as 100 and one above max as 0
NivelNoIntervaloVisto ==
    /\ MIN_NIVEL < MAX_NIVEL
    /\ \E i, j \in DOMAIN medidas :
           /\ EhFinito(medidas[i].dist) /\ medidas[i].dist.k < MIN_NIVEL * Den
           /\ medidas[i].api = 100 /\ medidas[i].back = 100
           /\ EhFinito(medidas[j].dist) /\ medidas[j].dist.k > MAX_NIVEL * Den
           /\ medidas[j].api = 0 /\ medidas[j].back = 0

\* C2: for min < max and every finite distance the result of both copies is the
\* reference round(clamp(100 * (1 - (distance - min) / (max - min)), 0, 100));
\* min=10, max=50, distance=20 gives 75; the two copies agree on every input.
NivelIgualReferencia ==
    \A i \in DOMAIN medidas :
        LET m == medidas[i]
        IN /\ m.api = m.back
           /\ (MIN_NIVEL < MAX_NIVEL /\ EhFinito(m.dist)) =>
                  m.api = Referencia(m.dist, MIN_NIVEL, MAX_NIVEL)
           /\ (MIN_NIVEL = 10 /\ MAX_NIVEL = 50 /\ m.dist = Dist("float", 20 * Den)) =>
                  m.api = 75

\* C3: for min < max the level is non-increasing in the distance
NivelMonotono ==
    \A i, j \in DOMAIN medidas :
        (/\ MIN_NIVEL < MAX_NIVEL
         /\ EhNumero(medidas[i].dist) /\ EhNumero(medidas[j].dist)
         /\ DistLeq(medidas[i].dist, medidas[j].dist)) =>
            /\ medidas[i].api >= medidas[j].api
            /\ medidas[i].back >= medidas[j].back

\* C3 witness: two finite distances d1 < d2 inside the range with level(d1) > level(d2)
NivelMonotonoVisto ==
    /\ MIN_NIVEL < MAX_NIVEL
    /\ \E i, j \in DOMAIN medidas :
           /\ EhFinito(medidas[i].dist) /\ EhFinito(medidas[j].dist)
           /\ MIN_NIVEL * Den < medidas[i].dist.k
           /\ medidas[i].dist.k < medidas[j].dist.k
           /\ medidas[j].dist.k < MAX_NIVEL * Den
           /\ medidas[i].api > medidas[j].api
           /\ medidas[i].back > medidas[j].back

\* C4: a distance that is None or not a number gives None, whatever the
\* calibration, degenerate or not; nothing is raised.
SemValorParaNaoNumero ==
    \A i \in DOMAIN medidas :
        ~EhNumero(medidas[i].dist) =>
            medidas[i].api = None /\ medidas[i].back = None

\* C4 witness: None and a non-number measured under min = max
SemValorParaNaoNumeroVisto ==
    /\ MIN_NIVEL = MAX_NIVEL
    /\ \E i, j \in DOMAIN medidas :
           /\ medidas[i].dist.tipo = "None" /\ medidas[i].api = None
           /\ medidas[j].dist.tipo = "outro" /\ medidas[j].back = None

\* C5: with max = min every numeric distance gives 0 and no division by zero
\* is evaluated
ZeroSeCalibracaoDegenerada ==
    \A i \in DOMAIN medidas :
        (MIN_NIVEL = MAX_NIVEL /\ EhNumero(medidas[i].dist)) =>
            medidas[i].api = 0 /\ medidas[i].back = 0

\* C5 witness: a finite distance and nan measured as 0 under min = max
ZeroSeCalibracaoDegeneradaVisto ==
    /\ MIN_NIVEL = MAX_NIVEL
    /\ \E i, j \in DOMAIN medidas :
           /\ EhFinito(medidas[i].dist) /\ medidas[i].api = 0 /\ medidas[i].back = 0
           /\ medidas[j].dist.tipo = "nan" /\ medidas[j].back = 0

\* C6: when the clamped percentage is exactly halfway between two integers the
\* result is the even neighbour, and otherwise it is the nearest integer.
ArredondamentoConsistente ==
    \A i \in DOMAIN medidas :
        LET m == medidas[i]
            den == PctDen(MIN_NIVEL, MAX_NIVEL)
            num == PctNum(m.dist, MIN_NIVEL, MAX_NIVEL)
        IN (MIN_NIVEL < MAX_NIVEL /\ EhFinito(m.dist)) =>
               \A r \in {m.api, m.back} :
                   /\ 2 * Abs(r * den - num) <= den
                   /\ 2 * Abs(r * den - num) = den => r % 2 = 0

(***************************************************************************)
(* Properties of the two query operations, checked under Spec.             *)
(***************************************************************************)
EhJanela == pedido.rota = "periodo"
EhUltima == pedido.rota = "ultima"

\* the duration a window request asks for, in hours
Duracao(p) == IF p.unit = "d" THEN p.value * DiaHoras ELSE p.value

\* the rows a window request made now must return
NaJanela(p) == {l \in leituras : l.created_on >= agora - Duracao(p)}

IdsDoCorpo == {resposta.corpo[i].id : i \in DOMAIN resposta.corpo}

\* C7: the records of a successful window response are in non-decreasing
\* created_on order, in both variants
JanelaOrdenada ==
    (EhJanela /\ resposta.status = 200) =>
        \A i, j \in DOMAIN resposta.corpo :
            i < j => resposta.corpo[i].created_on.inst <= resposta.corpo[j].created_on.inst

\* C7 witness: three readings T1 < T2 < T3 returned in that order, the oldest
\* being the one inserted last
JanelaOrdenadaVista ==
    /\ EhJanela /\ resposta.status = 200
    /\ Len(resposta.corpo) = 3
    /\ resposta.corpo[1].created_on.inst < resposta.corpo[2].created_on.inst
    /\ resposta.corpo[2].created_on.inst < resposta.corpo[3].created_on.inst
    /\ resposta.corpo[1].id = 3

\* C8: a successful window response holds exactly the stored readings with
\* created_on >= now - duration, each once; a valid request that the store
\* serves succeeds, with an empty sequence when nothing matches
JanelaExata ==
    EhJanela =>
        /\ resposta.status = 200 =>
               /\ IdsDoCorpo = {l.id : l \in NaJanela(pedido)}
               /\ Len(resposta.corpo) = Cardinality(NaJanela(pedido))
        /\ (pedido.falha = "nenhuma" /\ pedido.unit \in {"h", "d"} /\ pedido.value >= 1) =>
               resposta.status = 200

\* C8 witness: a reading exactly at the cutoff is returned and an older one is not
JanelaExataVista ==
    /\ EhJanela /\ resposta.status = 200 /\ pedido.value >= 1
    /\ \E l \in leituras : l.created_on = agora - Duracao(pedido) /\ l.id \in IdsDoCorpo
    /\ \E l \in leituras : l.created_on < agora - Duracao(pedido) /\ l.id \notin IdsDoCorpo

\* C9: the latest-reading operation returns one stored reading of maximum
\* created_on when the table has rows, and the not-found result (an empty
\* body, or 404) when it has none and the store answers
UltimaEhMaxima ==
    EhUltima =>
        /\ Len(resposta.corpo) <= 1
        /\ resposta.corpo # <<>> =>
               \E l \in leituras :
                   /\ l.id = resposta.corpo[1].id
                   /\ l.created_on = resposta.corpo[1].created_on.inst
                   /\ l.distancia = resposta.corpo[1].distancia
                   /\ \A m \in leituras : m.created_on <= l.created_on
        /\ (pedido.falha = "nenhuma" /\ leituras # {}) =>
               resposta.status = 200 /\ Len(resposta.corpo) = 1
        /\ (pedido.falha = "nenhuma" /\ leituras = {}) =>
               /\ resposta.corpo = <<>>
               /\ resposta.status = IF pedido.api = "back" THEN 200 ELSE 404

\* C9 witness: the reading returned is the first one inserted, newer than the second
UltimaEhMaximaVista ==
    /\ EhUltima /\ resposta.status = 200
    /\ resposta.corpo # <<>> /\ resposta.corpo[1].id = 1
    /\ \E m \in leituras : m.id = 2 /\ m.created_on < resposta.corpo[1].created_on.inst

\* C10: in every variant a window request with an unknown unit or a count
\* below 1 gets a client error and makes no store connection or query
PedidoInvalidoRejeitado ==
    (EhJanela /\ (pedido.unit \notin {"h", "d"} \/ pedido.value < 1)) =>
        /\ resposta.status \in 400..499
        /\ resposta.conexoes = 0
        /\ resposta.consultas = 0

\* the response of a request that found no rows: 404 and the error page for
\* the HTML page, an empty JSON body for the others
SemLinhas(p) ==
    IF p.api = "api" /\ p.rota = "ultima"
    THEN [status |-> 404, pagina |-> "error.html",
          detalhe |-> "Nenhuma leitura encontrada no banco de dados.", corpo |-> <<>>]
    ELSE [status |-> 200, pagina |-> "json", detalhe |-> "", corpo |-> <<>>]

\* the fixed texts the handlers answer a failure with
MensagensGenericas ==
    {"Servico indisponivel: Falha na conexao com o banco de dados",
     "Erro interno do servidor ao buscar ultima leitura",
     "Erro interno do servidor ao buscar historico",
     "Ocorreu um erro interno no servidor."}

\* C11: a request whose store connection or query fails is answered with a
\* 5xx status and a fixed text that holds nothing of the exception, and never
\* with the response the same request gets when no row is found
FalhaTemErroGenerico ==
    (pedido.falha # "nenhuma" /\ resposta.conexoes > 0) =>
        /\ resposta.status \in 500..599
        /\ resposta.detalhe \in MensagensGenericas
        /\ resposta.detalhe # str_e(pedido.falha)
        /\ resposta.corpo = <<>>
        /\ [status |-> resposta.status, pagina |-> resposta.pagina,
            detalhe |-> resposta.detalhe, corpo |-> resposta.corpo] # SemLinhas(pedido)

\* C11 witness: the query of the latest reading fails on an empty table and
\* the answer is 500, not the empty object
FalhaTemErroGenericoVista ==
    /\ pedido.api = "back" /\ EhUltima /\ pedido.falha = "consulta"
    /\ leituras = {}
    /\ resposta.status = 500
    /\ resposta.detalhe = "Erro interno do servidor ao buscar ultima leitura"

\* C13: with MAX_NIVEL <= MIN_NIVEL the service does not start, so no request
\* is ever answered under such a calibration
SoServeCalibrado ==
    resposta.status = 200 => MAX_NIVEL > MIN_NIVEL

\* C15: a successful response has one record per retrieved row, and each
\* record carries the id and the distance of its row and a level field equal
\* to the level function of that distance under the calibration
RegistroTemNivel ==
    resposta.status = 200 =>
        /\ EhJanela => Len(resposta.corpo) = Cardinality(NaJanela(pedido))
        /\ \A i \in DOMAIN resposta.corpo :
               LET rec == resposta.corpo[i]
               IN \E l \in leituras :
                      /\ l.id = rec.id
                      /\ l.distancia = rec.distancia
                      /\ "nivel" \in DOMAIN rec
                      /\ rec.nivel = NivelBack[l.distancia, <<MIN_NIVEL, MAX_NIVEL>>]

\* C14: every created_on of a response record is present and carries an
\* explicit offset, and it is the stored instant, a timestamp stored without
\* offset being read as UTC; in both variants
CarimboComOffset ==
    \A i \in DOMAIN resposta.corpo :
        LET rec == resposta.corpo[i]
        IN /\ "created_on" \in DOMAIN rec
           /\ rec.created_on.offset # ""
           /\ \E l \in leituras : l.id = rec.id /\ l.created_on = rec.created_on.inst

(***************************************************************************)
(* Properties of the sessions, checked under SpecSessao.                   *)
(***************************************************************************)
Terminou(r) == sessao_pc[r] = "fim"

\* C12: each request acquires its own session and closes it exactly once on
\* every exit; when all requests have completed no session is open; a request
\* queries only the session it acquired, which is open while it does
SessaoPropriaFechadaUmaVez ==
    /\ \A r \in Pedidos :
           /\ closes[r] <= 1
           /\ Terminou(r) => closes[r] = (IF db[r] = 0 THEN 0 ELSE 1)
           /\ Terminou(r) => db[r] \notin abertas
           /\ sessao_pc[r] \in {"api_handler", "back_handler"} => db[r] \in abertas
    /\ (\A r \in Pedidos : Terminou(r)) => abertas = {}
    /\ \A u \in usos : <<u[2], u[1]>> \in donos
    /\ \A p, q \in donos : p[1] = q[1] => p[2] = q[2]

\* C12 witness: all requests completed, two sessions having been open at
\* once, one request left by a store exception, one by an HTTPException after
\* a query, each having closed its session
SessaoPropriaFechadaUmaVezVista ==
    /\ \A r \in Pedidos : Terminou(r)
    /\ pico >= 2
    /\ \E r \in Pedidos : saida[r] = "excecao" /\ closes[r] = 1
    /\ \E r \in Pedidos : saida[r] = "http_erro" /\ closes[r] = 1 /\ <<r, db[r]>> \in usos

(***************************************************************************)
(* Properties of the runner, checked under SpecRunner and SpecRunnerFair.  *)
(***************************************************************************)
\* the position of a child in the start order
Pos(c) == CHOOSE i \in DOMAIN Ordem : Ordem[i] = c

\* the children signal_handler has dealt with or is dealing with
Tratados == {sh_log[k].filho : k \in DOMAIN sh_log}

\* the events that end the step of a child
Finais == {"parado", "kill", "erro", "ja_parado"}

\* C16: when the runner exits after SIGINT or SIGTERM, every child it started
\* has been sent terminate, waited for and killed if still there, so that no
\* child is running
SinalParaTodosOsFilhos ==
    (runner_pc = "exited" /\ gatilho = "sinal") =>
        \A c \in Filhos : filho[c] # "rodando"

\* C18: when startup fails after a child was started, by FileNotFoundError
\* or by any other error, no started child is running when the runner ends
FalhaNaPartidaParaOsFilhos ==
    (runner_pc = "exited" /\ gatilho \in {"FileNotFoundError", "except"}) =>
        \A c \in Filhos : filho[c] # "rodando"

\* C19: signal_handler deals with the children in the reverse of their start
\* order, ends the terminate / wait / kill step of one child before it
\* signals the next, and goes on to the remaining children after an error
ParadaEmOrdemInversa ==
    /\ \A i, j \in DOMAIN sh_log :
           i < j => Pos(sh_log[i].filho) >= Pos(sh_log[j].filho)
    /\ Tratados = {processes[i] : i \in (Len(processes) - Cardinality(Tratados) + 1)..Len(processes)}
    /\ \A k \in DOMAIN sh_log :
           IF sh_log[k].ev \in {"parado", "kill"}
           THEN k > 1 /\ sh_log[k - 1] = Registro(sh_log[k].filho, "terminate")
           ELSE k > 1 => /\ sh_log[k - 1].ev \in Finais
                         /\ sh_log[k - 1].filho # sh_log[k].filho
    /\ (runner_pc = "exited" /\ gatilho \in {"sinal", "monitor", "except"}) =>
           /\ Tratados = {processes[i] : i \in DOMAIN processes}
           /\ sh_log # <<>> => sh_log[Len(sh_log)].ev \in Finais

\* C19 witness: terminate raised for the frontend, then the API was
\* terminated and killed, then the listener terminated, and the runner exited
ParadaEmOrdemInversaVista ==
    /\ runner_pc = "exited"
    /\ sh_log = <<Registro("frontend", "erro"), Registro("api", "terminate"),
                  Registro("api", "kill"), Registro("listener", "terminate"),
                  Registro("listener", "parado")>>

\* C17: once the three children are started, the exit of a child leads to
\* signal_handler dealing with every child and to the exit of the runner,
\* with no child left running but one whose terminate raised
SaidaDeFilhoEncerraTudo ==
    (runner_pc = "monitor" /\ \E c \in Filhos : filho[c] = "saiu") ~>
        (/\ runner_pc = "exited"
         /\ Tratados = Filhos
         /\ \A c \in Filhos :
                filho[c] = "rodando" => \E k \in DOMAIN sh_log : sh_log[k] = Registro(c, "erro"))

\* C17 witness: the API exited by itself, the monitoring loop called
\* signal_handler, which stopped the frontend and the listener, and the
\* runner exited
SaidaDeFilhoEncerraTudoVista ==
    /\ runner_pc = "exited" /\ gatilho = "monitor" /\ sinais = 0
    /\ sh_log = <<Registro("frontend", "terminate"), Registro("frontend", "parado"),
                  Registro("api", "ja_parado"), Registro("listener", "terminate"),
                  Registro("listener", "kill")>>

====
